---- MODULE Spec2Model ----
(***************************************************************************)
(* A model of RespInPeace's analysis session (class RIP, src/rip.py): the  *)
(* stored extremum arrays, the hold array, the REL series and the derived  *)
(* views, with one action per public operation.                            *)
(*                                                                         *)
(* Conventions.                                                            *)
(*  - An attribute that may be None is a sequence of length 0 (None) or 1  *)
(*    (the stored array): None == <<>>, Some(a) == <<a>>.                  *)
(*  - Arrays are sequences; the code's 0-based sample index k is kept as   *)
(*    the VALUE k, and resp[k] of the code is resp[k + 1] here.            *)
(*  - A float parameter in seconds (min_hold_dur, min_hold_gap,            *)
(*    lookbehind, peak_prominence) is a fraction <<num, den>>, den > 0,    *)
(*    standing for the double nearest to num / den.                        *)
(*  - The code computes in doubles.  The model computes in integers and    *)
(*    fractions wherever that gives the same result, and in doubles (the   *)
(*    float64 section) where two quantities coincide in exact arithmetic,  *)
(*    so that the last bit of the doubles decides a comparison or a        *)
(*    rounding.                                                            *)
(*  - peakdetect on the z-scored signal is library code whose output the   *)
(*    code only consumes: it is an input of find_cycles.  The histogram    *)
(*    stage of the hold finder (np.histogram, argrelmax, peak_prominences, *)
(*    peak_widths) is computed, on bin counts instead of bin frequencies.  *)
(*  - The samples are integers, or nan.  The filters that rewrite the     *)
(*    signal (detrend, remove_baseline, scale, resample) are scipy's and   *)
(*    leave floats; the model draws the finite samples they leave from the *)
(*    same amplitude levels.  A NaN sample comes from a gap in the        *)
(*    recording the session was built on, or from scale on a constant      *)
(*    recording, and every filter spreads it over the whole recording.     *)
(***************************************************************************)
EXTENDS Integers, Sequences, FiniteSets, TLC

VARIABLES resp, samp_freq, dur, troughs, peaks, holds, rel, last

vars == <<resp, samp_freq, dur, troughs, peaks, holds, rel, last>>

\* ---------------------------------------------------------------- bounds
\* Samples per recording in the session life cycle (Spec), in hold
\* detection alone (SpecHolds), in the derived views (SpecViews), in the REL
\* estimate (SpecRel: nine samples hold five troughs, so that a window holds
\* three) and in the hold finder on one sub-interval (SpecInterval).
SigLen == 4
HoldLen == 6
ViewLen == 7
RelLen == 9
IntervalLen == 7

\* The number of histogram bins the calls ask for.
BINS == 10

\* ---------------------------------------------------------------- basics
None == <<>>
Some(a) == <<a>>
IsNone(x) == x = <<>>
Val(x) == x[1]

\* The amplitude levels of a sample (two for sessions; five for the hold
\* finder on one interval, whose histogram needs a minimum, a maximum and
\* three levels in between to show two peaks with a valley), the recordings
\* of n samples over the levels A and the sampling frequencies (Hz) of a new
\* session.
Amplitudes == {0, 1}
IntervalAmplitudes == {0, 1, 2, 3, 10}
Signals(n, A) == [1 .. n -> A]

\* The sample that is not a number (0 / 0 in scale), and the recording of n
\* such samples.
nan == -1073741824
has_nan(a) == \E i \in 1 .. Len(a) : a[i] = nan
all_nan(n) == [ i \in 1 .. n |-> nan ]
SampFreqs == {4}

Last(s) == s[Len(s)]
Front(s) == SubSeq(s, 1, Len(s) - 1)

Min2(a, b) == IF a <= b THEN a ELSE b
Max2(a, b) == IF a >= b THEN a ELSE b

\* The strictly increasing sequence of the elements of a finite set of integers.
RECURSIVE SortedSeq(_)
SortedSeq(S) ==
  IF S = {} THEN <<>>
  ELSE LET m == CHOOSE x \in S : \A y \in S : x <= y
       IN <<m>> \o SortedSeq(S \ {m})

\* a[lo:hi] of Python for 0 <= lo, hi: the samples lo .. hi-1 that exist.
Slice(a, lo, hi) == SubSeq(a, lo + 1, Min2(hi, Len(a)))

\* ------------------------------------------------------ Extremum Detector
\* What peakdetect returns, reduced to the column the code reads (the index
\* of each extremum).  peakdetect looks for a maximum and a minimum in turn,
\* so its two lists alternate along the signal; either kind may come first
\* and last, and either list may be empty.
RECURSIVE Deal(_, _)
Deal(s, peakFirst) ==
  IF s = <<>> THEN <<<<>>, <<>>>>
  ELSE LET r == Deal(Tail(s), ~peakFirst)
       IN IF peakFirst THEN <<<<Head(s)>> \o r[1], r[2]>>
                       ELSE <<r[1], <<Head(s)>> \o r[2]>>

DetectorOutputs(n) ==
  { Deal(SortedSeq(S), pf) : S \in SUBSET (0 .. (n - 1)), pf \in BOOLEAN }

Range(s) == { s[i] : i \in 1 .. Len(s) }

\* find_cycles up to the two stores: the trimming, the assertion and the
\* column extraction.  err is "" when the arrays are to be stored.
Raised(e) == [err |-> e, peaks |-> <<>>, troughs |-> <<>>]

\* Mutant of trim_first: drops the peak at the wrong end of the list.
trim_first_wrong_end(pk, tr) == IF pk[1] < tr[1] THEN Front(pk) ELSE pk

trim_first(pk, tr) == IF pk[1] < tr[1] THEN Tail(pk) ELSE pk
trim_last(pk, tr) == IF Last(pk) > Last(tr) THEN Front(pk) ELSE pk

\* From the assertion on: pk is the trimmed peak list.
assert_and_extract(pk, tr) ==
  IF Len(pk) # Len(tr) - 1 THEN Raised("AssertionError")
  ELSE IF pk = <<>> THEN Raised("IndexError")
  ELSE [err |-> "", peaks |-> pk, troughs |-> tr]

\* From the second trimming test on: pk has lost its leading peak.
detect_tail(pk, tr) ==
  IF pk = <<>> THEN Raised("IndexError")
  ELSE assert_and_extract(trim_last(pk, tr), tr)

detect(pk, tr) ==
  IF pk = <<>> \/ tr = <<>> THEN Raised("IndexError")
  ELSE detect_tail(trim_first(pk, tr), tr)

\* Whether the lists, trimmed wherever the trimming rule applies, miss
\* len(peaks) == len(troughs) - 1.

count_mismatch(pk, tr) ==
  Len(tr) - 1 #
    (IF pk = <<>> \/ tr = <<>> THEN Len(pk)
     ELSE IF trim_first(pk, tr) = <<>> THEN 0
     ELSE Len(trim_last(trim_first(pk, tr), tr)))

\* ---------------------------------------------------------------- float64
\* NumPy and SciPy compute in IEEE 754 double precision.  Where a result
\* hangs on the last bit the model computes it as they do: a natural number
\* beyond the machine integers is a little-endian sequence of limbs below
\* LIMB (<<>> is zero), a double is <<sign, m, e>> with the value
\* sign * m * 2^e, m a natural number below 2^53.
LIMB == 32768
MANT == 53

limb(a, i) == IF i <= Len(a) THEN a[i] ELSE 0

RECURSIVE trim(_)
trim(a) == IF a = <<>> THEN a ELSE IF a[Len(a)] # 0 THEN a ELSE trim(SubSeq(a, 1, Len(a) - 1))

RECURSIVE big(_)
big(k) == IF k = 0 THEN <<>> ELSE <<k % LIMB>> \o big(k \div LIMB)

RECURSIVE small(_)
small(a) == IF a = <<>> THEN 0 ELSE a[1] + LIMB * small(Tail(a))

\* The limbs of the column sums c from column i on, k being carried in.
RECURSIVE carry(_, _, _)
carry(c, i, k) ==
  IF i > Len(c) THEN big(k)
  ELSE <<(c[i] + k) % LIMB>> \o carry(c, i + 1, (c[i] + k) \div LIMB)

big_add(a, b) ==
  trim(carry([ i \in 1 .. (IF Len(a) > Len(b) THEN Len(a) ELSE Len(b)) |->
                 limb(a, i) + limb(b, i) ], 1, 0))

big_scale(a, k) == trim(carry([ i \in 1 .. Len(a) |-> a[i] * k ], 1, 0))

RECURSIVE borrow(_, _, _, _)
borrow(a, b, i, k) ==
  IF i > Len(a) THEN <<>>
  ELSE <<(a[i] - limb(b, i) - k + LIMB) % LIMB>>
       \o borrow(a, b, i + 1, IF a[i] - limb(b, i) - k < 0 THEN 1 ELSE 0)

\* a - b for a >= b.
big_sub(a, b) == trim(borrow(a, b, 1, 0))

big_less(a, b) ==
  \/ Len(a) < Len(b)
  \/ /\ Len(a) = Len(b)
     /\ \E i \in 1 .. Len(a) :
          a[i] < b[i] /\ \A j \in (i + 1) .. Len(a) : a[j] = b[j]

RECURSIVE big_mul(_, _)
big_mul(a, b) ==
  IF a = <<>> \/ b = <<>> THEN <<>>
  ELSE big_add(big_scale(a, b[1]), trim(<<0>> \o big_mul(a, Tail(b))))

\* The remainder, modulo k < LIMB, of the limbs of a above limb i.
RECURSIVE rem_above(_, _, _)
rem_above(a, k, i) ==
  IF i >= Len(a) THEN 0 ELSE (rem_above(a, k, i + 1) * LIMB + a[i + 1]) % k

big_div_small(a, k) ==
  trim([ i \in 1 .. Len(a) |-> (rem_above(a, k, i) * LIMB + a[i]) \div k ])

big_shl(a, bits) ==
  IF a = <<>> THEN a
  ELSE [ i \in 1 .. (bits \div 15) |-> 0 ] \o big_scale(a, 2 ^ (bits % 15))

big_shr(a, bits) ==
  IF bits \div 15 >= Len(a) THEN <<>>
  ELSE big_div_small(SubSeq(a, bits \div 15 + 1, Len(a)), 2 ^ (bits % 15))

bit_length(a) ==
  IF a = <<>> THEN 0
  ELSE 15 * (Len(a) - 1)
       + (CHOOSE b \in 1 .. 15 : 2 ^ (b - 1) <= a[Len(a)] /\ a[Len(a)] < 2 ^ b)

\* The digits of a to the base 32, the leading one first.
\* The bits of a below position bits.
big_low(a, bits) == big_sub(a, big_shl(big_shr(a, bits), bits))

\* <<quotient, remainder>> of N by D # 0: by a single limb directly, else by
\* binary long division, qr being the quotient and the remainder of the
\* bits of N above position k.
shift_in(R, N, k) ==
  big_add(big_scale(R, 2),
          big((limb(N, (k - 1) \div 15 + 1) \div 2 ^ ((k - 1) % 15)) % 2))

RECURSIVE div_bits(_, _, _, _)
div_bits(N, D, k, qr) ==
  IF k = 0 THEN qr
  ELSE IF big_less(shift_in(qr[2], N, k), D)
  THEN div_bits(N, D, k - 1, <<big_scale(qr[1], 2), shift_in(qr[2], N, k)>>)
  ELSE div_bits(N, D, k - 1,
                <<big_add(big_scale(qr[1], 2), <<1>>),
                  big_sub(shift_in(qr[2], N, k), D)>>)

big_divmod(N, D) ==
  IF Len(D) = 1 THEN <<big_div_small(N, D[1]), big(rem_above(N, D[1], 0))>>
  ELSE IF bit_length(N) < bit_length(D) THEN <<<<>>, N>>
  ELSE div_bits(N, D, bit_length(N) - bit_length(D) + 1,
                <<<<>>, big_shr(N, bit_length(N) - bit_length(D) + 1)>>)

\* <<m, e>> of the double nearest to Q * 2^e (to N / D * 2^e), ties to the
\* even mantissa: m keeps the MANT leading bits, rest are the bits dropped,
\* half is the weight of the first of them, sticky tells of a remainder
\* beyond them.
round_decide(m, rest, half, sticky, e) ==
  IF big_less(half, rest) \/ (rest = half /\ (sticky \/ m[1] % 2 = 1))
  THEN IF bit_length(big_add(m, <<1>>)) > MANT
       THEN <<big_shr(big_add(m, <<1>>), 1), e + 1>>
       ELSE <<big_add(m, <<1>>), e>>
  ELSE <<m, e>>
round_to(Q, sticky, e, drop) ==
  round_decide(big_shr(Q, drop), big_low(Q, drop), big_shl(<<1>>, drop - 1),
               sticky, e + drop)
round_quot(qr, e) == round_to(qr[1], qr[2] # <<>>, e, bit_length(qr[1]) - MANT)
round_ratio(N, D, e) ==
  IF N = <<>> THEN <<<<>>, 0>>
  ELSE IF MANT + 1 + bit_length(D) > bit_length(N)
  THEN round_quot(big_divmod(big_shl(N, MANT + 1 + bit_length(D) - bit_length(N)), D),
                  e - (MANT + 1 + bit_length(D) - bit_length(N)))
  ELSE round_quot(big_divmod(N, D), e)

\* Doubles: zero is <<1, <<>>, 0>>.
d_signed(s, me) == <<IF me[1] = <<>> THEN 1 ELSE s, me[1], me[2]>>
d_frac(num, den) ==
  d_signed(IF num < 0 THEN -1 ELSE 1,
           round_ratio(big(IF num < 0 THEN -num ELSE num), big(den), 0))
d_int(k) == d_frac(k, 1)
signed_less(sa, A, sb, B) ==
  IF sa = 1 /\ sb = 1 THEN big_less(A, B)
  ELSE IF sa = -1 /\ sb = -1 THEN big_less(B, A)
  ELSE sa = -1 /\ (A # <<>> \/ B # <<>>)
d_less(a, b) ==
  signed_less(a[1], big_shl(a[2], a[3] - (IF a[3] < b[3] THEN a[3] ELSE b[3])),
              b[1], big_shl(b[2], b[3] - (IF a[3] < b[3] THEN a[3] ELSE b[3])))
d_add_aligned(sa, A, sb, B, e) ==
  IF sa = sb THEN d_signed(sa, round_ratio(big_add(A, B), <<1>>, e))
  ELSE IF big_less(A, B) THEN d_signed(sb, round_ratio(big_sub(B, A), <<1>>, e))
  ELSE d_signed(sa, round_ratio(big_sub(A, B), <<1>>, e))
d_add(a, b) ==
  d_add_aligned(a[1], big_shl(a[2], a[3] - (IF a[3] < b[3] THEN a[3] ELSE b[3])),
                b[1], big_shl(b[2], b[3] - (IF a[3] < b[3] THEN a[3] ELSE b[3])),
                IF a[3] < b[3] THEN a[3] ELSE b[3])
d_sub(a, b) == d_add(a, d_signed(-b[1], <<b[2], b[3]>>))
d_mul(a, b) == d_signed(a[1] * b[1], round_ratio(big_mul(a[2], b[2]), <<1>>, a[3] + b[3]))
d_div(a, b) == d_signed(a[1] * b[1], round_ratio(a[2], b[2], a[3] - b[3]))

\* np.round of a double: the nearest integer, a half to the even neighbour.
rint_decide(q, rest, half) ==
  IF big_less(half, rest) \/ (rest = half /\ small(q) % 2 = 1)
  THEN small(q) + 1 ELSE small(q)
d_rint(a) ==
  IF a[3] >= 0 THEN small(big_shl(a[2], a[3]))
  ELSE rint_decide(big_shr(a[2], -a[3]), big_low(a[2], -a[3]),
                   big_shl(<<1>>, -a[3] - 1))

\* -1, 0 or 1 as the double a is below, equal to or above the double b.
d_cmp(a, b) == IF d_less(a, b) THEN -1 ELSE IF d_less(b, a) THEN 1 ELSE 0

\* ------------------------------------------------------------ Hold Finder
\* _find_islands: the maximal runs of ones of a 0/1 array as (onset, offset)
\* pairs, offset exclusive, after closing the gaps shorter than min_gap.
At0(a, k) == IF k >= 0 /\ k < Len(a) THEN a[k + 1] ELSE 0

\* np.where(np.diff(np.pad(a, 1, 'constant')) == v)[0]
diff_where(a, v) ==
  SelectSeq([ i \in 1 .. (Len(a) + 1) |-> i - 1 ],
            LAMBDA k : At0(a, k) - At0(a, k - 1) = v)

\* np.delete(s, D): s without the elements at the 0-based positions in D.
RECURSIVE DeleteAt(_, _)
DeleteAt(s, D) ==
  IF s = <<>> THEN <<>>
  ELSE DeleteAt(Front(s), D) \o
       (IF (Len(s) - 1) \in D THEN <<>> ELSE <<Last(s)>>)

short_gaps(onsets, offsets, min_gap) ==
  { i \in 0 .. (Len(onsets) - 2) : onsets[i + 2] - offsets[i + 1] < min_gap }

Zip(a, b) == [ i \in 1 .. Min2(Len(a), Len(b)) |-> <<a[i], b[i]>> ]

close_gaps(onsets, offsets, min_gap) ==
  Zip(DeleteAt(onsets, { i + 1 : i \in short_gaps(onsets, offsets, min_gap) }),
      DeleteAt(offsets, short_gaps(onsets, offsets, min_gap)))

find_islands(a, min_gap) ==
  close_gaps(diff_where(a, 1), diff_where(a, -1), min_gap)

\* np.argmax: the first position holding the largest value (1-based here).
argmax(d) ==
  CHOOSE i \in 1 .. Len(d) :
    /\ \A j \in 1 .. Len(d) : d[j] <= d[i]
    /\ \A j \in 1 .. (i - 1) : d[j] < d[i]

\* The window (in bins) of the prominences the peaks are selected by, and
\* the number of bins find_holds asks for by default.
wlen == 5
DefaultBins == 100

RECURSIVE MinOf(_)
MinOf(s) == IF Len(s) = 1 THEN s[1] ELSE Min2(s[1], MinOf(Tail(s)))

RECURSIVE MaxOf(_)
MaxOf(s) == IF Len(s) = 1 THEN s[1] ELSE Max2(s[1], MaxOf(Tail(s)))

\* np.histogram(intr_resp, bins) lays its bins between the minimum and the
\* maximum of the data, and between min - 0.5 and max + 0.5 when the two
\* coincide.  first_edge2 is twice the first edge, width2 twice the distance
\* of the outer edges; bin_edge(k, ..) is the exact position of edge k in
\* units of 1 / (2 * bins), so that a sample v lies at 2 * bins * v.
first_edge2(a) == IF MinOf(a) = MaxOf(a) THEN 2 * MinOf(a) - 1 ELSE 2 * MinOf(a)
width2(a) == IF MinOf(a) = MaxOf(a) THEN 2 ELSE 2 * (MaxOf(a) - MinOf(a))
bin_edge(k, e0, w, bins) == e0 * bins + k * w

\* bin_edges[k] as np.linspace leaves it: k * step + start in doubles, the
\* last edge being the stop itself.
edge_float(k, e0, w, bins) ==
  IF k = bins THEN d_frac(e0 + w, 2)
  ELSE d_add(d_mul(d_int(k),
                   d_div(d_sub(d_frac(e0 + w, 2), d_frac(e0, 2)), d_int(bins))),
             d_frac(e0, 2))

\* The edge a sample v lies at or above, and whether v lies on an edge
\* other than the outer two in exact arithmetic.
edge_under(v, e0, w, bins) == ((2 * v - e0) * bins) \div w
on_inner_edge(v, e0, w, bins) ==
  /\ ((2 * v - e0) * bins) % w = 0
  /\ 0 < edge_under(v, e0, w, bins)
  /\ edge_under(v, e0, w, bins) < bins

\* For a sample v on an inner edge: -1, 0 or 1 as the double edge is below,
\* equal to or above v.
edge_cmp(v, e0, w, bins) ==
  d_cmp(edge_float(edge_under(v, e0, w, bins), e0, w, bins), d_int(v))

\* edge_cmp of the samples the recordings of the model put on inner edges
\* (an amplitude level between two levels, in the bins asked for),
\* evaluated once.
edge_cmps ==
  [ t \in { u \in { <<v, first_edge2(<<lo, hi>>), width2(<<lo, hi>>), bins>> :
                      v \in Amplitudes \cup IntervalAmplitudes,
                      lo \in Amplitudes \cup IntervalAmplitudes,
                      hi \in Amplitudes \cup IntervalAmplitudes,
                      bins \in {BINS, DefaultBins} } :
              on_inner_edge(u[1], u[2], u[3], u[4]) }
    |-> edge_cmp(t[1], t[2], t[3], t[4]) ]

edge_side(v, e0, w, bins) ==
  IF <<v, e0, w, bins>> \in DOMAIN edge_cmps THEN edge_cmps[<<v, e0, w, bins>>]
  ELSE edge_cmp(v, e0, w, bins)

\* v >= bin_edges[k] and v <= bin_edges[k].  The outer edges are the
\* minimum and the maximum of the data themselves.
at_least_edge(v, k, e0, w, bins) ==
  IF 2 * bins * v # bin_edge(k, e0, w, bins)
  THEN 2 * bins * v > bin_edge(k, e0, w, bins)
  ELSE k = 0 \/ k = bins \/ edge_side(v, e0, w, bins) <= 0
at_most_edge(v, k, e0, w, bins) ==
  IF 2 * bins * v # bin_edge(k, e0, w, bins)
  THEN 2 * bins * v < bin_edge(k, e0, w, bins)
  ELSE k = 0 \/ k = bins \/ edge_side(v, e0, w, bins) >= 0

\* The bin of the sample v: the bin i with bin_edges[i] <= v <
\* bin_edges[i + 1], the last bin taking the maximum too.
bin_of(v, e0, w, bins) ==
  IF on_inner_edge(v, e0, w, bins) /\ edge_side(v, e0, w, bins) > 0
  THEN edge_under(v, e0, w, bins) - 1
  ELSE Min2(edge_under(v, e0, w, bins), bins - 1)

\* bin_vals before the normalisation: the count of each bin 0 .. bins-1,
\* b being the bin of each sample.
bin_counts(b, bins) ==
  [ i \in 0 .. (bins - 1) |-> Cardinality({ k \in 1 .. Len(b) : b[k] = i }) ]

histogram(a, e0, w, bins) ==
  bin_counts([ k \in 1 .. Len(a) |-> bin_of(a[k], e0, w, bins) ], bins)

\* bin_vals / sum(bin_vals): the value of a bin that holds c of n samples.
\* Rounding keeps the order of the counts, so bins are compared by count.
bin_val(c, n) == d_frac(c, n)

\* scipy.signal.argrelmax(bin_vals)[0]: the bins strictly above both
\* neighbours; the first and the last bin never qualify.
argrelmax(x, bins) ==
  SelectSeq([ i \in 1 .. (bins - 2) |-> i ],
            LAMBDA i : x[i] > x[i - 1] /\ x[i] > x[i + 1])

\* peak_prominences: the window of a peak (window_len < 2 stands for
\* wlen=None, the whole histogram), and the base on each side: the lowest
\* bin met while walking away from the peak until a higher bin or the end
\* of the window; of equally low bins the one nearest to the peak.
\* How many bins the walk covers on each side of the peak.
left_reach(x, peak, i_min) ==
  CHOOSE d \in 0 .. (peak - i_min) :
    /\ d = peak - i_min \/ x[peak - d - 1] > x[peak]
    /\ \A e \in 1 .. d : x[peak - e] <= x[peak]
right_reach(x, peak, i_max) ==
  CHOOSE d \in 0 .. (i_max - peak) :
    /\ d = i_max - peak \/ x[peak + d + 1] > x[peak]
    /\ \A e \in 1 .. d : x[peak + e] <= x[peak]

\* The base among the bins at distance 0 .. reach of the peak.
left_base(x, peak, reach) ==
  peak - (CHOOSE d \in 0 .. reach :
            \A e \in 0 .. reach :
              IF e < d THEN x[peak - e] > x[peak - d]
              ELSE x[peak - e] >= x[peak - d])
right_base(x, peak, reach) ==
  peak + (CHOOSE d \in 0 .. reach :
            \A e \in 0 .. reach :
              IF e < d THEN x[peak + e] > x[peak + d]
              ELSE x[peak + e] >= x[peak + d])

left_bases(x, peak, window_len) ==
  left_base(x, peak,
            left_reach(x, peak, IF 2 <= window_len
                                THEN Max2(peak - window_len \div 2, 0) ELSE 0))
right_bases(x, peak, window_len, bins) ==
  right_base(x, peak,
             right_reach(x, peak, IF 2 <= window_len
                                  THEN Min2(peak + window_len \div 2, bins - 1)
                                  ELSE bins - 1))

\* The prominence of a peak in a window, in counts.
prominence(x, peak, window_len, bins) ==
  x[peak] - Max2(x[left_bases(x, peak, window_len)],
                 x[right_bases(x, peak, window_len, bins)])

\* x[peak] - max(left_min, right_min) of a peak of count top over a base of
\* count base, among n samples.
prom_float(top, base, n) == d_sub(bin_val(top, n), bin_val(base, n))

\* peaks_prom > peak_prominence, n being sum(bin_vals) before normalising.
prominent(top, base, n, peak_prominence) ==
  IF (top - base) * peak_prominence[2] # peak_prominence[1] * n
  THEN (top - base) * peak_prominence[2] > peak_prominence[1] * n
  ELSE d_less(d_frac(peak_prominence[1], peak_prominence[2]),
              prom_float(top, base, n))

\* The prominence of p is at most that of q, p and q being
\* <<peak, top, base>>.
prom_leq(p, q, n) ==
  IF p[2] - p[3] # q[2] - q[3] THEN p[2] - p[3] < q[2] - q[3]
  ELSE IF p[2] = q[2] THEN TRUE
  ELSE ~d_less(prom_float(q[2], q[3], n), prom_float(p[2], p[3], n))

\* peaks[peaks_prom.argsort()]: by increasing prominence, peaks of equal
\* prominence in the order of their bins.
RECURSIVE insert_by_prom(_, _, _)
insert_by_prom(s, p, n) ==
  IF s = <<>> THEN <<p>>
  ELSE IF prom_leq(Last(s), p, n) THEN Append(s, p)
  ELSE Append(insert_by_prom(Front(s), p, n), Last(s))

RECURSIVE argsort_by_prom(_, _)
argsort_by_prom(ps, n) ==
  IF ps = <<>> THEN <<>>
  ELSE insert_by_prom(argsort_by_prom(Front(ps), n), Last(ps), n)

\* Each peak with its count and the count of its base in the window.
with_prominence(x, pks, bins) ==
  [ i \in 1 .. Len(pks) |->
      <<pks[i], x[pks[i]], x[pks[i]] - prominence(x, pks[i], wlen, bins)>> ]

\* The peaks the stage keeps, in the order it handles them.
hist_peaks(x, n, peak_prominence, bins) ==
  argsort_by_prom(SelectSeq(with_prominence(x, argrelmax(x, bins), bins),
                            LAMBDA p : prominent(p[2], p[3], n, peak_prominence)),
                  n)

\* peak_widths(bin_vals, peaks, rel_height=0.8), which takes its own
\* prominences over the whole histogram.  The evaluation height is
\* x[peak] - prominence * 0.8; width_height5 is five times that, in counts.
width_height5(top, base) == 5 * top - 4 * (top - base)
height_float(top, base, n) ==
  d_sub(bin_val(top, n), d_mul(prom_float(top, base, n), d_frac(4, 5)))

\* Where the height is a bin value in exact arithmetic: -1, 0 or 1 as the
\* double height is below, equal to or above that bin value.
height_cmp(top, base, n) ==
  d_cmp(height_float(top, base, n), bin_val(width_height5(top, base) \div 5, n))

\* height_cmp of the peaks an interval of up to IntervalLen samples can
\* show, evaluated once.
height_cmps ==
  [ t \in { u \in (1 .. IntervalLen) \X (0 .. IntervalLen) \X (1 .. IntervalLen) :
              u[2] < u[1] /\ u[1] <= u[3] /\ width_height5(u[1], u[2]) % 5 = 0 }
    |-> height_cmp(t[1], t[2], t[3]) ]

height_side(top, base, n) ==
  IF width_height5(top, base) % 5 # 0 THEN 0
  ELSE IF <<top, base, n>> \in DOMAIN height_cmps THEN height_cmps[<<top, base, n>>]
  ELSE height_cmp(top, base, n)

\* height < x[i] and x[i] < height for a bin of count c.
above_height(c, h5, side) == 5 * c > h5 \/ (5 * c = h5 /\ side < 0)
below_height(c, h5, side) == 5 * c < h5 \/ (5 * c = h5 /\ side > 0)

\* The first bin not above the height on each side, no further than the base.
left_cross(x, peak, i_min, h5, side) ==
  peak - (CHOOSE d \in 0 .. (peak - i_min) :
            /\ d = peak - i_min \/ ~above_height(x[peak - d], h5, side)
            /\ \A e \in 0 .. (d - 1) : above_height(x[peak - e], h5, side))
right_cross(x, peak, i_max, h5, side) ==
  peak + (CHOOSE d \in 0 .. (i_max - peak) :
            /\ d = i_max - peak \/ ~above_height(x[peak + d], h5, side)
            /\ \A e \in 0 .. (d - 1) : above_height(x[peak + e], h5, side))

\* (height - x[i]) / (x[i + 1] - x[i]) in doubles, c0 being the count of bin
\* i and c1 that of its neighbour towards the peak.
crossing_float(c0, c1, top, base, n) ==
  d_div(d_sub(height_float(top, base, n), bin_val(c0, n)),
        d_sub(bin_val(c1, n), bin_val(c0, n)))

\* np.round of the interpolated crossing, i being the bin the walk stopped
\* at: the bin itself or its neighbour, as the crossing lies below or above
\* the half.  On the half in exact arithmetic the double decides, itself a
\* half (rounded to the even neighbour) or next to it.
left_ip(x, i, h5, side, top, base, n) ==
  IF ~below_height(x[i], h5, side) THEN i
  ELSE IF 2 * (h5 - 5 * x[i]) < 5 * (x[i + 1] - x[i]) THEN i
  ELSE IF 2 * (h5 - 5 * x[i]) > 5 * (x[i + 1] - x[i]) THEN i + 1
  ELSE d_rint(d_add(d_int(i), crossing_float(x[i], x[i + 1], top, base, n)))
right_ip(x, i, h5, side, top, base, n) ==
  IF ~below_height(x[i], h5, side) THEN i
  ELSE IF 2 * (h5 - 5 * x[i]) < 5 * (x[i - 1] - x[i]) THEN i
  ELSE IF 2 * (h5 - 5 * x[i]) > 5 * (x[i - 1] - x[i]) THEN i - 1
  ELSE d_rint(d_sub(d_int(i), crossing_float(x[i], x[i - 1], top, base, n)))

\* (hold_bot, hold_top) of one peak, as the indices of their bin edges:
\* from the evaluation height h5 between the bases lb and rb, from the
\* bases, and from the histogram.
band_at(x, peak, lb, rb, h5, side, top, base, n) ==
  <<left_ip(x, left_cross(x, peak, lb, h5, side), h5, side, top, base, n),
    right_ip(x, right_cross(x, peak, rb, h5, side), h5, side, top, base, n)>>

band_between(x, peak, lb, rb, n) ==
  band_at(x, peak, lb, rb,
          width_height5(x[peak], Max2(x[lb], x[rb])),
          height_side(x[peak], Max2(x[lb], x[rb]), n),
          x[peak], Max2(x[lb], x[rb]), n)

band_of(x, peak, n, bins) ==
  band_between(x, peak, left_bases(x, peak, 0), right_bases(x, peak, 0, bins), n)

bands_of(x, pks, n, bins) ==
  [ i \in 1 .. Len(pks) |-> band_of(x, pks[i][1], n, bins) ]

\* The stage on the histogram x of n samples.
stage_bands(x, n, peak_prominence, bins) ==
  bands_of(x, hist_peaks(x, n, peak_prominence, bins), n, bins)

\* The amplitude bands (hold_bot, hold_top) of an interval, one per kept
\* peak of its histogram.  The histogram of no sample at all is empty; its
\* normalisation yields no number and argrelmax no peak.
hist_bands(intr_resp, peak_prominence, bins) ==
  IF intr_resp = <<>> THEN <<>>
  ELSE stage_bands(histogram(intr_resp, first_edge2(intr_resp),
                             width2(intr_resp), bins),
                   Len(intr_resp), peak_prominence, bins)

\* v >= min(hold_top, hold_bot) and v <= max(hold_top, hold_bot).
InBand(v, b, e0, w, bins) ==
  /\ at_least_edge(v, Min2(b[1], b[2]), e0, w, bins)
  /\ at_most_edge(v, Max2(b[1], b[2]), e0, w, bins)

within_hold_region(intr_resp, b, e0, w, bins) ==
  [ i \in 1 .. Len(intr_resp) |->
      IF InBand(intr_resp[i], b, e0, w, bins) THEN 1 ELSE 0 ]

\* hold_cand[np.argmax(hold_cand_durs)]; np.argmax raises a ValueError on
\* an empty list, for which <<>> stands.
longest(hold_cand) ==
  IF hold_cand = <<>> THEN <<>>
  ELSE hold_cand[argmax([ i \in 1 .. Len(hold_cand) |->
                            hold_cand[i][2] - hold_cand[i][1] ])]

\* sorted(holds, key=itemgetter(0)): a stable sort by start.
RECURSIVE InsertByStart(_, _)
InsertByStart(s, h) ==
  IF s = <<>> THEN <<h>>
  ELSE IF Last(s)[1] <= h[1] THEN Append(s, h)
  ELSE Append(InsertByStart(Front(s), h), Last(s))

RECURSIVE sorted_by_start(_)
sorted_by_start(s) ==
  IF s = <<>> THEN <<>>
  ELSE InsertByStart(sorted_by_start(Front(s)), Last(s))

\* The loop "Merge overlapping hold regions": hs is what is left of the
\* sorted list, prev_hold the region being grown, acc holds_merged.
merge_step(prev_hold, h) == <<prev_hold[1], h[2]>>

RECURSIVE merge_loop(_, _, _)
merge_loop(hs, prev_hold, acc) ==
  IF hs = <<>> THEN Append(acc, prev_hold)
  ELSE IF Head(hs)[1] <= prev_hold[2]
  THEN merge_loop(Tail(hs), merge_step(prev_hold, Head(hs)), acc)
  ELSE merge_loop(Tail(hs), Head(hs), Append(acc, prev_hold))

merge_overlapping(holds_in) ==
  merge_loop(Tail(sorted_by_start(holds_in)), Head(sorted_by_start(holds_in)), <<>>)

\* The hold candidates of one interval before the merge: per band the
\* longest run of samples inside it.
candidates_of(intr_resp, bands, e0, w, bins) ==
  [ i \in 1 .. Len(bands) |->
      longest(find_islands(within_hold_region(intr_resp, bands[i], e0, w, bins), 0)) ]

band_candidates(intr_resp, peak_prominence, bins) ==
  IF intr_resp = <<>> THEN <<>>
  ELSE candidates_of(intr_resp, hist_bands(intr_resp, peak_prominence, bins),
                     first_edge2(intr_resp), width2(intr_resp), bins)

\* What the call yields from its candidates: the exception raised ("" for
\* none), the value returned and the candidates the merge started from.
merged_or_none(cands) ==
  IF \E i \in 1 .. Len(cands) : cands[i] = <<>>
  THEN [err |-> "ValueError", ret |-> None, cand |-> <<>>]
  ELSE IF cands = <<>> THEN [err |-> "", ret |-> None, cand |-> <<>>]
  ELSE [err |-> "", ret |-> Some(merge_overlapping(cands)), cand |-> cands]

\* _find_holds_within_interval: None, or the merged hold regions relative
\* to the start of the interval.  np.histogram raises a ValueError when the
\* range of the data is not finite.
find_holds_within_interval(signal, start, end, peak_prominence, bins) ==
  IF has_nan(Slice(signal, start, end))
  THEN [err |-> "ValueError", ret |-> None, cand |-> <<>>]
  ELSE merged_or_none(band_candidates(Slice(signal, start, end),
                                      peak_prominence, bins))

\* -------------------------------------------------------- Hold Consolidator
\* x < p * samp_freq and x >= p * samp_freq for an integer x and a
\* parameter p = <<num, den>> in seconds.  A parameter whose denominator
\* is a power of two is a double itself, and so is its product with
\* samp_freq; any other product is compared as the double it rounds to
\* when it is x in exact arithmetic.
is_pow2(d) == \E k \in 0 .. 30 : d = 2 ^ k
samples_float(p, f) == d_mul(d_frac(p[1], p[2]), d_int(f))

\* Mutant of LessThanSamples: the threshold is left in seconds.
LessThanSeconds(x, p, f) == x * p[2] < p[1]

LessThanSamples(x, p, f) ==
  IF x * p[2] # p[1] * f THEN x * p[2] < p[1] * f
  ELSE IF is_pow2(p[2]) THEN FALSE
  ELSE d_less(d_int(x), samples_float(p, f))
AtLeastSamples(x, p, f) ==
  IF x * p[2] # p[1] * f THEN x * p[2] > p[1] * f
  ELSE IF is_pow2(p[2]) THEN TRUE
  ELSE ~d_less(d_int(x), samples_float(p, f))

\* The sweep "Merge holds which lie closer than min_hold_gap and exclude
\* holds shorter than min_hold_dur", final append included.
flush(acc, prev_hold, min_hold_dur, f) ==
  IF AtLeastSamples(prev_hold[2] - prev_hold[1], min_hold_dur, f)
  THEN Append(acc, prev_hold) ELSE acc

RECURSIVE consolidate_loop(_, _, _, _, _, _)
consolidate_loop(hs, prev_hold, acc, min_hold_dur, min_hold_gap, f) ==
  IF hs = <<>> THEN Append(acc, prev_hold)
  ELSE IF LessThanSamples(Head(hs)[1] - prev_hold[2], min_hold_gap, f)
  THEN consolidate_loop(Tail(hs), <<prev_hold[1], Head(hs)[2]>>, acc,
                        min_hold_dur, min_hold_gap, f)
  ELSE consolidate_loop(Tail(hs), Head(hs),
                        flush(acc, prev_hold, min_hold_dur, f),
                        min_hold_dur, min_hold_gap, f)

consolidate(hold_cand, min_hold_dur, min_hold_gap, f) ==
  consolidate_loop(Tail(hold_cand), Head(hold_cand), <<>>,
                   min_hold_dur, min_hold_gap, f)

\* ------------------------------------------------------ Cycle/Segment Model
\* The rows of s ordered by the permutation argsort of column 2 (the ends).
\* The ends of inhalations and exhalations are distinct stored indices.
RECURSIVE SortByEnd(_)
SortByEnd(S) ==
  IF S = {} THEN <<>>
  ELSE LET m == CHOOSE x \in S : \A y \in S : x[2] <= y[2]
       IN <<m>> \o SortByEnd(S \ {m})

Reverse(s) == [ i \in 1 .. Len(s) |-> s[Len(s) + 1 - i] ]

\* np.concatenate((stack([troughs[:-1], peaks]), stack([peaks, troughs[1:]])))
seg_samp(tr, pk) ==
  [ i \in 1 .. Len(pk) |-> <<tr[i], pk[i]>> ] \o
  [ i \in 1 .. Len(pk) |-> <<pk[i], tr[i + 1]>> ]

\* seg_samp[seg_samp[:, 1].argsort()]
seg_by_end(tr, pk) == SortByEnd(Range(seg_samp(tr, pk)))

\* A time in seconds is a sample index n over samp_freq f, the fraction
\* <<n, f>>.
InSeconds(rows, f) ==
  [ i \in 1 .. Len(rows) |-> << <<rows[i][1], f>>, <<rows[i][2], f>> >> ]

\* The properties; each fails with a TypeError while the arrays are None.
cycles(tr, f) ==
  IF IsNone(tr) THEN [err |-> "TypeError", val |-> <<>>]
  ELSE [err |-> "",
        val |-> InSeconds([ i \in 1 .. (Len(Val(tr)) - 1) |->
                              <<Val(tr)[i], Val(tr)[i + 1]>> ], f)]

inhalations(tr, pk, f) ==
  IF IsNone(tr) THEN [err |-> "TypeError", val |-> <<>>]
  ELSE [err |-> "",
        val |-> InSeconds([ i \in 1 .. Len(Val(pk)) |->
                              <<Val(tr)[i], Val(pk)[i]>> ], f)]

exhalations(tr, pk, f) ==
  IF IsNone(tr) THEN [err |-> "TypeError", val |-> <<>>]
  ELSE [err |-> "",
        val |-> InSeconds([ i \in 1 .. Len(Val(pk)) |->
                              <<Val(pk)[i], Val(tr)[i + 1]>> ], f)]

segments(tr, pk, f) ==
  IF IsNone(tr) THEN [err |-> "TypeError", val |-> <<>>]
  ELSE [err |-> "",
        val |-> InSeconds(Reverse(seg_by_end(Val(tr), Val(pk))), f)]

\* ------------------------------------------------------------- find_holds
\* Mutant of offset_by: the regions stay relative to their sub-interval.
offset_by_nothing(lo, intr_holds) ==
  IF intr_holds = None THEN <<>> ELSE Val(intr_holds)

offset_by(lo, intr_holds) ==
  IF intr_holds = None THEN <<>>
  ELSE [ i \in 1 .. Len(Val(intr_holds)) |->
           <<lo + Val(intr_holds)[i][1], lo + Val(intr_holds)[i][2]>> ]

\* The loop over the sub-intervals: hold_cand holds the candidates of the
\* sub-intervals done, in whole-recording coordinates; an exception of one
\* sub-interval ends the call.
RECURSIVE collect(_, _, _, _, _)
collect_next(signal, segs, peak_prominence, bins, hold_cand, r) ==
  IF r.err # "" THEN [err |-> r.err, cand |-> hold_cand]
  ELSE collect(signal, Tail(segs), peak_prominence, bins,
               hold_cand \o offset_by(Head(segs)[1], r.ret))

collect(signal, segs, peak_prominence, bins, hold_cand) ==
  IF segs = <<>> THEN [err |-> "", cand |-> hold_cand]
  ELSE collect_next(signal, segs, peak_prominence, bins, hold_cand,
                    find_holds_within_interval(signal, Head(segs)[1], Head(segs)[2],
                                               peak_prominence, bins))

\* Mutant of consolidate_or_return: an empty candidate list is stored as an
\* empty hold array.
consolidate_or_store_empty(hold_cand, min_hold_dur, min_hold_gap, f) ==
  IF hold_cand = <<>>
  THEN [err |-> "", wrote |-> TRUE, value |-> <<>>, cand |-> hold_cand]
  ELSE [err |-> "", wrote |-> TRUE,
        value |-> consolidate(hold_cand, min_hold_dur, min_hold_gap, f),
        cand |-> hold_cand]

\* From "if not hold_cand" on.
consolidate_or_return(hold_cand, min_hold_dur, min_hold_gap, f) ==
  IF hold_cand = <<>>
  THEN [err |-> "", wrote |-> FALSE, value |-> <<>>, cand |-> hold_cand]
  ELSE [err |-> "", wrote |-> TRUE,
        value |-> consolidate(hold_cand, min_hold_dur, min_hold_gap, f),
        cand |-> hold_cand]

\* From the end of the loop on.
after_collect(c, min_hold_dur, min_hold_gap, f) ==
  IF c.err # ""
  THEN [err |-> c.err, wrote |-> FALSE, value |-> <<>>, cand |-> c.cand]
  ELSE consolidate_or_return(c.cand, min_hold_dur, min_hold_gap, f)

\* find_holds: err is the exception raised ("" for none), wrote tells
\* whether self._holds was assigned, value what was assigned, cand the
\* list hold_cand the sub-intervals yielded.  The test
\* "self.cycles is None" reads the cycles property, which raises on a
\* session without extrema and never returns None.
find_holds(signal, f, tr, pk, min_hold_dur, min_hold_gap, peak_prominence, bins) ==
  IF IsNone(tr)
  THEN [err |-> cycles(tr, f).err, wrote |-> FALSE, value |-> <<>>, cand |-> <<>>]
  ELSE after_collect(collect(signal, seg_by_end(Val(tr), Val(pk)),
                             peak_prominence, bins, <<>>),
                     min_hold_dur, min_hold_gap, f)

\* ----------------------------------------------------- Range/REL Estimator
RECURSIVE InsertSorted(_, _)
InsertSorted(s, v) ==
  IF s = <<>> THEN <<v>>
  ELSE IF Last(s) <= v THEN Append(s, v)
  ELSE Append(InsertSorted(Front(s), v), Last(s))

RECURSIVE SortValues(_)
SortValues(s) ==
  IF s = <<>> THEN <<>>
  ELSE InsertSorted(SortValues(Front(s)), Last(s))

\* A float that is an integer or a half-integer, as a fraction in lowest terms.
Half(n) == IF n % 2 = 0 THEN <<n \div 2, 1>> ELSE <<n, 2>>

NaN == <<>>

\* np.median of a non-empty array of integers; NaN is the float that is not
\* a number.
median_of_sorted(s) ==
  IF Len(s) % 2 = 1 THEN Half(2 * s[(Len(s) + 1) \div 2])
  ELSE Half(s[Len(s) \div 2] + s[Len(s) \div 2 + 1])

\* t > trough - lookbehind_samp, lookbehind_samp being lookbehind * samp_freq.
after_lookbehind(t, trough, lookbehind, f) ==
  IF (trough - t) * lookbehind[2] # lookbehind[1] * f
  THEN (trough - t) * lookbehind[2] < lookbehind[1] * f
  ELSE IF is_pow2(lookbehind[2]) THEN FALSE
  ELSE d_less(d_sub(d_int(trough), samples_float(lookbehind, f)), d_int(t))

\* Mutant of prev_troughs: the trough itself counts as a previous one.
prev_troughs_inclusive(tr, trough, lookbehind, f) ==
  SelectSeq(tr, LAMBDA t : t <= trough /\ after_lookbehind(t, trough, lookbehind, f))

\* self._troughs[(self._troughs < trough) & (self._troughs > trough - lookbehind_samp)]
prev_troughs(tr, trough, lookbehind, f) ==
  SelectSeq(tr, LAMBDA t : t < trough /\ after_lookbehind(t, trough, lookbehind, f))

\* self.resp[idx] for an index array idx.
Take(signal, idx) == [ j \in 1 .. Len(idx) |-> signal[idx[j] + 1] ]

\* The median of samples one of which is not a number is not a number.
rel_value(signal, prev) ==
  IF Len(prev) = 0 THEN NaN
  ELSE IF has_nan(Take(signal, prev)) THEN NaN
  ELSE median_of_sorted(SortValues(Take(signal, prev)))

\* estimate_rel: the array assigned to self.rel.
estimate_rel(signal, f, tr, lookbehind, min_len) ==
  [ i \in 1 .. (Len(tr) - 1) |->
      rel_value(signal, prev_troughs(tr, tr[i], lookbehind, f)) ]

\* ------------------------------------------------------------ input sets
\* The recordings of the REL estimate: RelLen samples that reach the upper
\* level at every odd index and lie at either level at the even ones, whole
\* or with a gap, the sample at index 4 being NaN.
RelSignals ==
  LET whole == { a \in Signals(RelLen, Amplitudes) :
                   \A k \in 1 .. RelLen : k % 2 = 0 => a[k] = 1 }
  IN whole \cup { [a EXCEPT ![5] = nan] : a \in whole }

\* The keyword arguments of find_holds as
\* <<min_hold_dur, min_hold_gap, peak_prominence, bins>>; 0.25 s, 0.15 s,
\* 0.05 and 100 are the defaults.  The life cycle asks for the default
\* thresholds and BINS bins; hold detection is called with the defaults, with BINS
\* bins, with longer thresholds (0.5 s, 0.5 s) and with a gap threshold of
\* 0.75 s, three samples at 4 Hz.
HoldArgs ==
  { <<p[1], p[2], <<1, 20>>, BINS>> :
      p \in { << <<1, 4>>, <<3, 20>> >>, << <<1, 2>>, <<1, 2>> >>,
              << <<1, 4>>, <<3, 4>> >> } }
  \cup { << <<1, 4>>, <<3, 20>>, <<1, 20>>, DefaultBins >> }
FullDets == DetectorOutputs(SigLen)
LifeDets(n) == IF n = SigLen THEN FullDets ELSE DetectorOutputs(n)

\* ------------------------------------------------------------ the session
\* dur: the duration in seconds __init__ computed, len(resp) / samp_freq of
\*   that moment, as the fraction <<len, samp_freq>>.
\* last: the most recent call and its exception ("" for none), with
\*   mismatch  find_cycles: the trimmed lists missed the expected count,
\*   trimmed   find_cycles: how many peaks the trimming dropped,
\*   wrote     find_holds ran and assigned self._holds,
\*   params    <<min_hold_dur, min_hold_gap>> of that assignment,
\*   cand      the hold candidates find_holds collected,
\*   arg, ret  the arguments and the value returned of a call without effect.
Call(op, err) ==
  [op |-> op, err |-> err, mismatch |-> FALSE, trimmed |-> 0, wrote |-> FALSE,
   params |-> <<>>, cand |-> <<>>, arg |-> <<>>, ret |-> <<>>]

\* __init__ without a segmentation, on a recording of n samples over A.
Fresh(n, A) ==
  /\ resp \in Signals(n, A)
  /\ samp_freq \in SampFreqs
  /\ dur = <<n, samp_freq>>
  /\ troughs = None
  /\ peaks = None
  /\ holds = None
  /\ rel = None
  /\ last = Call("init", "")

\* A session on a recording of n samples out of S, on which
\* find_cycles(include_holds=False) has stored the extrema of some detector
\* output.  The detector compares the samples and reports none that is not
\* a number.
Detected(n, S) ==
  /\ resp \in S
  /\ samp_freq \in SampFreqs
  /\ dur = <<n, samp_freq>>
  /\ \E det \in DetectorOutputs(n) :
       /\ detect(det[1], det[2]).err = ""
       /\ peaks = Some(detect(det[1], det[2]).peaks)
       /\ troughs = Some(detect(det[1], det[2]).troughs)
  /\ ~has_nan(Take(resp, Val(troughs) \o Val(peaks)))
  /\ holds = None
  /\ rel = None
  /\ last = Call("find_cycles", "")

\* detrend(type): scipy.signal.detrend subtracts a least-squares line or
\* the mean.  On samples that are not numbers the least-squares fit raises
\* a ValueError and the mean leaves them as they are.
Detrend ==
  \E type \in {"linear", "constant"} :
    /\ IF has_nan(resp)
       THEN /\ resp' = resp
            /\ last' = [Call("detrend", IF type = "linear" THEN "ValueError" ELSE "")
                          EXCEPT !.arg = <<type>>]
       ELSE /\ resp' \in Signals(Len(resp), Amplitudes)
            /\ last' = [Call("detrend", "") EXCEPT !.arg = <<type>>]
    /\ UNCHANGED <<samp_freq, dur, troughs, peaks, holds, rel>>

\* remove_baseline: the signal minus its smoothed copy.
RemoveBaseline ==
  /\ resp' \in (IF has_nan(resp) THEN {resp} ELSE Signals(Len(resp), Amplitudes))
  /\ last' = Call("remove_baseline", "")
  /\ UNCHANGED <<samp_freq, dur, troughs, peaks, holds, rel>>

\* scale: (resp - mean) / std.  The standard deviation of a constant
\* recording is 0 and every sample becomes 0 / 0; on any other recording
\* the samples keep their order.
Scale ==
  /\ resp' \in (IF has_nan(resp) \/ \A i \in 1 .. Len(resp) : resp[i] = resp[1]
                THEN {all_nan(Len(resp))}
                ELSE { [ i \in 1 .. Len(resp) |-> g[resp[i]] ] :
                         g \in { h \in [Range(resp) -> Amplitudes] :
                                   \A x \in Range(resp) : \A y \in Range(resp) :
                                     (x < y) <=> (h[x] < h[y]) } })
  /\ last' = Call("scale", "")
  /\ UNCHANGED <<samp_freq, dur, troughs, peaks, holds, rel>>

\* resample: floor(dur * resamp_freq) new samples at the new frequency, not
\* numbers if the old ones were not; dur and the stored indices stay as
\* they were.
Resample ==
  \E resamp_freq \in {2, 4} :
    /\ resp' \in (IF has_nan(resp)
                  THEN {all_nan((dur[1] * resamp_freq) \div dur[2])}
                  ELSE Signals((dur[1] * resamp_freq) \div dur[2], Amplitudes))
    /\ samp_freq' = resamp_freq
    /\ last' = [Call("resample", "") EXCEPT !.arg = <<resamp_freq>>]
    /\ UNCHANGED <<dur, troughs, peaks, holds, rel>>

\* What a find_holds that returned r does to the session, as part of the
\* call op that dropped `trimmed` peaks.
StoreHolds(op, trimmed, r, kw) ==
  /\ holds' = IF r.wrote THEN Some(r.value) ELSE holds
  /\ last' = [Call(op, r.err) EXCEPT
                !.trimmed = trimmed,
                !.wrote = r.wrote,
                !.params = IF r.wrote THEN <<kw[1], kw[2]>> ELSE <<>>,
                !.cand = r.cand]

\* find_cycles from the stores on, d being what detection produced; kw is
\* <<>> for include_holds=False, else the keyword arguments of find_holds.
StoreCycles(d, trimmed, kw) ==
  /\ peaks' = Some(d.peaks)
  /\ troughs' = Some(d.troughs)
  /\ IF kw # <<>>
     THEN StoreHolds("find_cycles", trimmed,
                     find_holds(resp, samp_freq, Some(d.troughs), Some(d.peaks),
                                kw[1], kw[2], kw[3], kw[4]), kw)
     ELSE /\ holds' = holds
          /\ last' = [Call("find_cycles", "") EXCEPT !.trimmed = trimmed]
  /\ UNCHANGED <<resp, samp_freq, dur, rel>>

CyclesOutcome(d, npeaks, mismatch, kw) ==
  IF d.err # ""
  THEN /\ last' = [Call("find_cycles", d.err) EXCEPT !.mismatch = mismatch]
       /\ UNCHANGED <<resp, samp_freq, dur, troughs, peaks, holds, rel>>
  ELSE StoreCycles(d, npeaks - Len(d.peaks), kw)

\* find_cycles on the detector output det, with the keyword arguments kw.
FindCycles(Dets, Kwargs) ==
  \E det \in Dets, kw \in Kwargs :
    CyclesOutcome(detect(det[1], det[2]), Len(det[1]),
                  count_mismatch(det[1], det[2]), kw)

FindHolds(Kwargs) ==
  \E kw \in Kwargs :
    /\ StoreHolds("find_holds", 0,
                  find_holds(resp, samp_freq, troughs, peaks, kw[1], kw[2], kw[3], kw[4]),
                  kw)
    /\ UNCHANGED <<resp, samp_freq, dur, troughs, peaks, rel>>

\* _find_holds_within_interval called on [start, end): no effect on the
\* session.
IntervalOutcome(start, end, peak_prominence, bins, r) ==
  /\ last' = [Call("find_holds_within_interval", r.err) EXCEPT
                !.arg = <<start, end, peak_prominence, bins>>,
                !.ret = r.ret,
                !.cand = r.cand]
  /\ UNCHANGED <<resp, samp_freq, dur, troughs, peaks, holds, rel>>

\* The calls of the model: on the whole recording and on all but its first
\* sample, with peak_prominence 0.05 and BINS bins.
FindHoldsWithinInterval ==
  \E start \in {0, 1} :
    IntervalOutcome(start, IntervalLen, <<1, 20>>, BINS,
                    find_holds_within_interval(resp, start, IntervalLen,
                                               <<1, 20>>, BINS))

Segments ==
  /\ last' = [Call("segments", segments(troughs, peaks, samp_freq).err) EXCEPT
                !.ret = segments(troughs, peaks, samp_freq).val]
  /\ UNCHANGED <<resp, samp_freq, dur, troughs, peaks, holds, rel>>

\* estimate_rel with a lookbehind of 0, 1 and 2 s and a min_len of 1 and 2.
EstimateRel ==
  \E lookbehind \in { <<0, 1>>, <<1, 1>>, <<2, 1>> }, min_len \in {1, 2} :
    IF IsNone(troughs)
    THEN /\ last' = Call("estimate_rel", "TypeError")
         /\ UNCHANGED <<resp, samp_freq, dur, troughs, peaks, holds, rel>>
    ELSE /\ rel' = Some(estimate_rel(resp, samp_freq, Val(troughs),
                                     lookbehind, min_len))
         /\ last' = [Call("estimate_rel", "") EXCEPT
                       !.arg = <<lookbehind, min_len>>]
         /\ UNCHANGED <<resp, samp_freq, dur, troughs, peaks, holds>>

\* The life cycle of a session: conditioning, resampling and detection in
\* any order.
Init == Fresh(SigLen, Amplitudes)

Next ==
  \/ Detrend
  \/ RemoveBaseline
  \/ Scale
  \/ Resample
  \/ FindCycles(LifeDets(Len(resp)),
                {<<>>, << <<1, 4>>, <<3, 20>>, <<1, 20>>, BINS >>})
  \/ FindHolds({ << <<1, 4>>, <<3, 20>>, <<1, 20>>, BINS >> })

Spec == Init /\ [][Next]_vars

\* Hold detection with every keyword argument, on detected extrema.
SpecHolds ==
  Detected(HoldLen, Signals(HoldLen, Amplitudes)) /\ [][FindHolds(HoldArgs)]_vars

\* The derived views, on detected extrema.
SpecViews == Detected(ViewLen, Signals(ViewLen, Amplitudes)) /\ [][Segments]_vars

\* The REL estimate, on detected extrema, before and after scale.
SpecRel == Detected(RelLen, RelSignals) /\ [][EstimateRel \/ Scale]_vars

\* The hold finder on single sub-intervals of a recording.
SpecInterval ==
  Fresh(IntervalLen, IntervalAmplitudes) /\ [][FindHoldsWithinInterval]_vars

\* ================================================================ claims
Stored == ~IsNone(troughs) /\ ~IsNone(peaks)

\* One peak strictly between each two neighbouring troughs, none outside.
Alternates(tr, pk) ==
  /\ Len(pk) = Len(tr) - 1
  /\ \A i \in 1 .. Len(pk) : tr[i] < pk[i] /\ pk[i] < tr[i + 1]

\* C1: after every successful find_cycles the stored arrays satisfy
\* len(peaks) == len(troughs) - 1 and alternate strictly
\* troughs[0] < peaks[0] < troughs[1] < ... < troughs[n], so the first and
\* the last extremum are troughs.  (The arrays are written by find_cycles
\* alone, so this is stated of every state that holds stored arrays.)
C1_ExtremaAlternate ==
  /\ (last.op = "find_cycles" /\ last.err = "") => Stored
  /\ (~IsNone(troughs) \/ ~IsNone(peaks)) =>
       (Stored /\ Alternates(Val(troughs), Val(peaks)))

\* A successful find_cycles on a detector output that began with a peak,
\* which the trimming dropped.
C1_Witness ==
  /\ last.op = "find_cycles" /\ last.err = ""
  /\ last.trimmed = 1
  /\ Val(troughs)[1] > 0

\* C7: whenever the detector output after trimming misses
\* len(peaks) == len(troughs) - 1, find_cycles aborts with an assertion
\* failure and leaves the stored peaks, troughs and holds as they were.
C7_MismatchRaisesAssertion ==
  [][(last'.op = "find_cycles" /\ last'.mismatch) =>
       (/\ last'.err = "AssertionError"
        /\ UNCHANGED <<troughs, peaks, holds>>)]_vars

\* C9: find_holds on a session without detected cycles runs find_cycles
\* and completes: it does not fail, and the extrema are stored afterwards.
C9_FindHoldsDetectsCycles ==
  last.op = "find_holds" => (last.err = "" /\ Stored)

HoldInsideSpan(h, tr) == tr[1] <= h[1] /\ h[1] < h[2] /\ h[2] <= Last(tr)

\* C4 as claimed: in every reachable state each stored hold [start, end)
\* lies inside the span of the stored extrema,
\* troughs[0] <= start < end <= troughs[-1].
C4_HoldsInsideSpan ==
  ~IsNone(holds) =>
    (Stored /\ \A i \in 1 .. Len(Val(holds)) :
                 HoldInsideSpan(Val(holds)[i], Val(troughs)))

\* C4 as amended: when the last call ran find_holds and it assigned the
\* hold array, each stored hold lies inside the span of the stored extrema.
C4_WrittenHoldsInsideSpan ==
  last.wrote =>
    (Stored /\ ~IsNone(holds) /\
     \A i \in 1 .. Len(Val(holds)) :
       HoldInsideSpan(Val(holds)[i], Val(troughs)))

\* A detection that stored holds on extrema that do not start at sample 0,
\* so that the offset of the sub-interval matters.
C4_Witness ==
  /\ last.wrote
  /\ Val(troughs)[1] > 0
  /\ Len(Val(holds)) >= 1

\* C10: a find_holds call in which no sub-interval yields a candidate
\* leaves holds, troughs and peaks exactly as they were.
C10_NoCandidateNoWrite ==
  [][(last'.op = "find_holds" /\ last'.err = "" /\ last'.cand = <<>>) =>
       (holds' = holds /\ troughs' = troughs /\ peaks' = peaks)]_vars

\* A find_holds without candidates on a session that holds the holds of an
\* earlier detection.
C10_Witness ==
  /\ last.op = "find_holds" /\ last.err = "" /\ last.cand = <<>>
  /\ ~IsNone(holds)
  /\ Stored

\* C2: every hold of the array find_holds stored lasts at least
\* min_hold_dur * samp_freq samples, the last one included.
C2_HoldsLongEnough ==
  last.wrote =>
    \A i \in 1 .. Len(Val(holds)) :
      (Val(holds)[i][2] - Val(holds)[i][1]) * last.params[1][2]
        >= last.params[1][1] * samp_freq

\* C3: the hold array find_holds stored is sorted by start and pairwise
\* disjoint, and consecutive holds are at least min_hold_gap * samp_freq
\* samples apart.
C3_HoldsSeparated ==
  last.wrote =>
    \A i \in 1 .. (Len(Val(holds)) - 1) :
      /\ Val(holds)[i][1] < Val(holds)[i + 1][1]
      /\ Val(holds)[i][2] <= Val(holds)[i + 1][1]
      /\ (Val(holds)[i + 1][1] - Val(holds)[i][2]) * last.params[2][2]
           >= last.params[2][1] * samp_freq

\* Two holds stored apart after the sweep merged candidates that lay
\* closer than the threshold: more candidates than holds.
C3_Witness ==
  /\ last.wrote
  /\ Len(Val(holds)) = 2
  /\ Len(last.cand) > 2

\* C8: the merge step of one sub-interval returns regions sorted by start
\* and pairwise disjoint, and every candidate of the interval, nested ones
\* included, lies inside one returned region.
Contains(region, c) == region[1] <= c[1] /\ c[2] <= region[2]

C8_MergeCoversCandidates ==
  (last.op = "find_holds_within_interval" /\ last.ret # None) =>
    /\ \A i \in 1 .. (Len(Val(last.ret)) - 1) :
         /\ Val(last.ret)[i][1] < Val(last.ret)[i + 1][1]
         /\ Val(last.ret)[i][2] <= Val(last.ret)[i + 1][1]
    /\ \A c \in Range(last.cand) :
         \E i \in 1 .. Len(Val(last.ret)) : Contains(Val(last.ret)[i], c)

\* C5: segments holds exactly the inhalations and exhalations of the
\* stored extrema, ordered by end time ascending.
C5_SegmentsAscending ==
  (last.op = "segments" /\ last.err = "") =>
    /\ Range(last.ret) = Range(inhalations(troughs, peaks, samp_freq).val)
                           \cup Range(exhalations(troughs, peaks, samp_freq).val)
    /\ Len(last.ret) = 2 * Len(Val(peaks))
    /\ \A i \in 1 .. (Len(last.ret) - 1) :
         last.ret[i][2][1] * last.ret[i + 1][2][2]
           <= last.ret[i + 1][2][1] * last.ret[i][2][2]

\* The troughs (positions in tr) strictly before tr[i] and strictly after
\* tr[i] - lookbehind * samp_freq.
Window(tr, i, lookbehind, f) ==
  { j \in 1 .. Len(tr) :
      /\ tr[j] < tr[i]
      /\ tr[j] * lookbehind[2] > tr[i] * lookbehind[2] - lookbehind[1] * f }

\* The raw amplitudes at the troughs in W, and whether one is not a number.
Amps(signal, tr, W) == { signal[tr[j] + 1] : j \in W }
Missing(signal, tr, W) == nan \in Amps(signal, tr, W)

\* The k-th smallest raw amplitude at the troughs in W.
OrderStat(signal, tr, W, k) ==
  CHOOSE v \in Amps(signal, tr, W) :
    /\ Cardinality({ j \in W : signal[tr[j] + 1] < v }) < k
    /\ k <= Cardinality({ j \in W : signal[tr[j] + 1] <= v })

\* m = <<num, den>> is the median of the raw amplitudes at the troughs in W:
\* the mean of the two middle order statistics (which coincide for odd |W|).
IsMedian(m, signal, tr, W) ==
  /\ m # NaN
  /\ 2 * m[1] =
       m[2] * (OrderStat(signal, tr, W, (Cardinality(W) + 1) \div 2)
               + OrderStat(signal, tr, W, (Cardinality(W) + 2) \div 2))

\* C6: estimate_rel stores one value per trough but the last; value i is
\* the median of the raw signal at the troughs in the window of trough i,
\* NaN exactly when the window is empty, and so NaN for the first trough,
\* for every lookbehind and every min_len.
C6_RelIsWindowMedian ==
  (last.op = "estimate_rel" /\ last.err = "") =>
    /\ ~IsNone(rel)
    /\ Len(Val(rel)) = Len(Val(troughs)) - 1
    /\ Val(rel)[1] = NaN
    /\ \A i \in 1 .. Len(Val(rel)) :
         IF Window(Val(troughs), i, last.arg[1], samp_freq) = {}
         THEN Val(rel)[i] = NaN
         ELSE IsMedian(Val(rel)[i], resp, Val(troughs),
                       Window(Val(troughs), i, last.arg[1], samp_freq))

\* C6, amended: estimate_rel stores one value per trough but the last; value
\* i is NaN when the window of trough i is empty and when the raw signal is
\* not a number at a trough in the window (as it is at every sample once
\* scale has run on a constant recording or on one with a gap), and
\* otherwise it is the median of the raw signal at the troughs in the
\* window; the value for the first trough is NaN, for every lookbehind and
\* every min_len.
C6_RelIsMedianOrNaN ==
  (last.op = "estimate_rel" /\ last.err = "") =>
    /\ ~IsNone(rel)
    /\ Len(Val(rel)) = Len(Val(troughs)) - 1
    /\ Val(rel)[1] = NaN
    /\ \A i \in 1 .. Len(Val(rel)) :
         IF \/ Window(Val(troughs), i, last.arg[1], samp_freq) = {}
            \/ Missing(resp, Val(troughs),
                       Window(Val(troughs), i, last.arg[1], samp_freq))
         THEN Val(rel)[i] = NaN
         ELSE IsMedian(Val(rel)[i], resp, Val(troughs),
                       Window(Val(troughs), i, last.arg[1], samp_freq))

\* An estimate with min_len = 2 in which one window holds a single trough and
\* another holds three troughs, two of amplitude 0 and one of amplitude 1:
\* their median is 0 and their mean is 1/3.
C6_Witness ==
  /\ last.op = "estimate_rel" /\ last.err = ""
  /\ last.arg[2] = 2
  /\ \E i \in 1 .. Len(Val(rel)) :
       Cardinality(Window(Val(troughs), i, last.arg[1], samp_freq)) = 1
  /\ \E i \in 1 .. Len(Val(rel)) :
       LET W == Window(Val(troughs), i, last.arg[1], samp_freq)
       IN /\ Cardinality(W) = 3
          /\ Cardinality({ j \in W : resp[Val(troughs)[j] + 1] = 0 }) = 2
          /\ Cardinality({ j \in W : resp[Val(troughs)[j] + 1] = 1 }) = 1
          /\ Val(rel)[i] = <<0, 1>>

====
